---- MODULE Spec2Model ----
(***************************************************************************)
(* A model of cmd/enkodo, the generator of MarshalEnkodo / UnmarshalEnkodo *)
(* procedures, and of the procedures it emits.                             *)
(*                                                                         *)
(* Go strings are tuples of one-character strings, so that indexing        *)
(* (field.Type[0]), len, slicing (field.Type[2:]) and strings.Trim are     *)
(* computed as the code computes them.  Emitted text is kept as a tree of  *)
(* statements, one node per emitted statement, a loop holding its body.    *)
(***************************************************************************)
EXTENDS Integers, Sequences, FiniteSets, TLC

\* ------------------------------------------------------------------------
\* String literals of the source, as character tuples.
\* ------------------------------------------------------------------------
s_uint8 == <<"u", "i", "n", "t", "8">>
s_uint16 == <<"u", "i", "n", "t", "1", "6">>
s_int == <<"i", "n", "t">>
s_int64 == <<"i", "n", "t", "6", "4">>
s_string == <<"s", "t", "r", "i", "n", "g">>
s_error == <<"e", "r", "r", "o", "r">>
s_bytes == <<"[", "]", "b", "y", "t", "e">>
s_byte == <<"b", "y", "t", "e">>
s_User == <<"U", "s", "e", "r">>
s_Post == <<"P", "o", "s", "t">>
s_Media == <<"M", "e", "d", "i", "a">>
s_arrLen == <<"_", "a", "r", "r", "L", "e", "n">>
s_enkodo == <<"e", "n", "k", "o", "d", "o">>
s_errors == <<"e", "r", "r", "o", "r", "s">>
s_v == <<"v">>
s_t == <<"t">>

\* The back quote character of a raw string literal.
BackQuote == "backquote"

\* The struct tags of the inputs, as the parser hands them over (with the
\* back quotes of the literal).
tag_empty == <<BackQuote, "e", "n", "k", "o", "d", "o", ":", "\"", "\"", BackQuote>>
tag_string == <<BackQuote, "e", "n", "k", "o", "d", "o", ":", "\"", "s", "t", "r", "i", "n", "g", "\"", BackQuote>>
tag_uint8 == <<BackQuote, "e", "n", "k", "o", "d", "o", ":", "\"", "u", "i", "n", "t", "8", "\"", BackQuote>>
tag_T == <<BackQuote, "e", "n", "k", "o", "d", "o", ":", "\"", "T", "\"", BackQuote>>
tag_Foo == <<BackQuote, "e", "n", "k", "o", "d", "o", ":", "\"", "F", "o", "o", "\"", BackQuote>>
tag_json == <<BackQuote, "j", "s", "o", "n", ":", "\"", "x", "\"", BackQuote>>

UpperChars == {"A", "B", "C", "D", "E", "F", "G", "H", "I", "J", "K", "L", "M", "N", "O", "P", "Q", "R", "S", "T", "U", "V", "W", "X", "Y", "Z"}
LowerChars == {"a", "b", "c", "d", "e", "f", "g", "h", "i", "j", "k", "l", "m", "n", "o", "p", "q", "r", "s", "t", "u", "v", "w", "x", "y", "z"}
DigitChars == {"0", "1", "2", "3", "4", "5", "6", "7", "8", "9"}

\* regexp class \w
WordChars == UpperChars \cup LowerChars \cup DigitChars \cup {"_"}

\* field.Tag == nil: the field has no tag literal
NilTag == <<"<nil>">>

\* ------------------------------------------------------------------------
\* strings package
\* ------------------------------------------------------------------------
\* s[from:] of Go, from counted from 0
SliceFrom(s, from) == SubSeq(s, from + 1, Len(s))

\* strings.Contains
Contains(s, sub) ==
    \E i \in 1..(Len(s) - Len(sub) + 1) : SubSeq(s, i, i + Len(sub) - 1) = sub

RECURSIVE TrimLeftSet(_, _)
TrimLeftSet(s, cutset) ==
    IF s # <<>> /\ Head(s) \in cutset THEN TrimLeftSet(Tail(s), cutset) ELSE s

RECURSIVE TrimRightSet(_, _)
TrimRightSet(s, cutset) ==
    IF s # <<>> /\ s[Len(s)] \in cutset
    THEN TrimRightSet(SubSeq(s, 1, Len(s) - 1), cutset)
    ELSE s

\* strings.Trim(s, cutset): every leading and trailing character of cutset
Trim(s, cutset) == TrimRightSet(TrimLeftSet(s, cutset), cutset)

\* strings.ToLower on the one-character prefix s.Name[0:1]
LowerOf ==
    [c \in UpperChars |->
        CASE c = "A" -> "a" [] c = "B" -> "b" [] c = "C" -> "c" [] c = "D" -> "d"
          [] c = "E" -> "e" [] c = "F" -> "f" [] c = "G" -> "g" [] c = "H" -> "h"
          [] c = "I" -> "i" [] c = "J" -> "j" [] c = "K" -> "k" [] c = "L" -> "l"
          [] c = "M" -> "m" [] c = "N" -> "n" [] c = "O" -> "o" [] c = "P" -> "p"
          [] c = "Q" -> "q" [] c = "R" -> "r" [] c = "S" -> "s" [] c = "T" -> "t"
          [] c = "U" -> "u" [] c = "V" -> "v" [] c = "W" -> "w" [] c = "X" -> "x"
          [] c = "Y" -> "y" [] OTHER -> "z"]

ToLower(s) == [i \in 1..Len(s) |-> IF s[i] \in UpperChars THEN LowerOf[s[i]] ELSE s[i]]

\* unicode.IsUpper(rune(b)) for the ASCII letters of the inputs
IsUpper(c) == c \in UpperChars

\* ------------------------------------------------------------------------
\* The tag regexp: enkodo:"(\w+)"
\* ------------------------------------------------------------------------
tagPrefix == <<"e", "n", "k", "o", "d", "o", ":", "\"">>

\* the length of the longest run of \w characters of s that starts at j
RECURSIVE WordRun(_, _)
WordRun(s, j) ==
    IF j <= Len(s) /\ s[j] \in WordChars THEN 1 + WordRun(s, j + 1) ELSE 0

\* the regexp matches at position i: the prefix, one or more \w, a quote
MatchesAt(s, i) ==
    /\ i + Len(tagPrefix) - 1 <= Len(s)
    /\ SubSeq(s, i, i + Len(tagPrefix) - 1) = tagPrefix
    /\ WordRun(s, i + Len(tagPrefix)) >= 1
    /\ i + Len(tagPrefix) + WordRun(s, i + Len(tagPrefix)) <= Len(s)
    /\ s[i + Len(tagPrefix) + WordRun(s, i + Len(tagPrefix))] = "\""

\* tag.FindStringSubmatch(s): nil, or the match and its one group
FindStringSubmatch(s) ==
    IF \E i \in 1..Len(s) : MatchesAt(s, i)
    THEN LET i == CHOOSE k \in 1..Len(s) :
                      MatchesAt(s, k) /\ \A j \in 1..(k - 1) : ~MatchesAt(s, j)
             n == WordRun(s, i + Len(tagPrefix))
         IN  << SubSeq(s, i, i + Len(tagPrefix) + n),
                SubSeq(s, i + Len(tagPrefix), i + Len(tagPrefix) + n - 1) >>
    ELSE <<>>

\* ------------------------------------------------------------------------
\* The converter registry
\* ------------------------------------------------------------------------
NewBasicTypeConverter(gotype, enkodoFunction) ==
    [goName |-> gotype, enkFunc |-> enkodoFunction, kind |-> "basic"]

ErrorTypeConverter == [goName |-> s_error, enkFunc |-> "String", kind |-> "error"]

enc_types_advanced ==
    (<<"u", "i", "n", "t">> :> NewBasicTypeConverter(<<"u", "i", "n", "t">>, "Uint"))
 @@ (s_uint8 :> NewBasicTypeConverter(s_uint8, "Uint8"))
 @@ (s_uint16 :> NewBasicTypeConverter(s_uint16, "Uint16"))
 @@ (<<"u", "i", "n", "t", "3", "2">> :> NewBasicTypeConverter(<<"u", "i", "n", "t", "3", "2">>, "Uint32"))
 @@ (<<"u", "i", "n", "t", "6", "4">> :> NewBasicTypeConverter(<<"u", "i", "n", "t", "6", "4">>, "Uint64"))
 @@ (s_int :> NewBasicTypeConverter(s_int, "Int"))
 @@ (<<"i", "n", "t", "8">> :> NewBasicTypeConverter(<<"i", "n", "t", "8">>, "Int8"))
 @@ (<<"i", "n", "t", "1", "6">> :> NewBasicTypeConverter(<<"i", "n", "t", "1", "6">>, "Int16"))
 @@ (<<"i", "n", "t", "3", "2">> :> NewBasicTypeConverter(<<"i", "n", "t", "3", "2">>, "Int32"))
 @@ (s_int64 :> NewBasicTypeConverter(s_int64, "Int64"))
 @@ (<<"f", "l", "o", "a", "t", "3", "2">> :> NewBasicTypeConverter(<<"f", "l", "o", "a", "t", "3", "2">>, "Float32"))
 @@ (<<"f", "l", "o", "a", "t", "6", "4">> :> NewBasicTypeConverter(<<"f", "l", "o", "a", "t", "6", "4">>, "Float64"))
 @@ (s_string :> NewBasicTypeConverter(s_string, "String"))
 @@ (<<"b", "o", "o", "l">> :> NewBasicTypeConverter(<<"b", "o", "o", "l">>, "Bool"))
 @@ (s_bytes :> NewBasicTypeConverter(s_bytes, "Bytes"))
 @@ (s_error :> ErrorTypeConverter)

\* the lookup of a registry that has no entry for []byte
HasConverter_NoBytes(t) == t \in DOMAIN enc_types_advanced \ {s_bytes}

\* conv, ok := enc_types_advanced[t]
HasConverter(t) == t \in DOMAIN enc_types_advanced

\* An expression of the emitted code: a reference and the operations applied
\* to it, innermost first.  An operation is a conversion to a type
\* ("cast", T(x)), x.Error(), errors.New(x) or len(x).
Ref(name) == [ref |-> name, ops |-> <<>>]
Apply(e, op, typ) == [e EXCEPT !.ops = Append(@, [op |-> op, typ |-> typ])]
\* the empty string returned by a Dec that needs no transform
NoExpr == [ref |-> <<>>, ops |-> <<>>]

\* TypeConverter.EnkodoFunction
EnkodoFunction(conv) == conv.enkFunc

\* TypeConverter.Enc(val): val is already an expression (the name, or the
\* override conversion of the name)
Enc(conv, val) ==
    IF conv.kind = "error" THEN Apply(val, "Error", <<>>) ELSE val

\* TypeConverter.Dec(val): "" (NoExpr) when the raw value is used as it is
Dec(conv, val) ==
    IF conv.kind = "error" THEN Apply(val, "errorsNew", <<>>) ELSE NoExpr

\* TypeConverter.Imports
Imports(conv) == IF conv.kind = "error" THEN {s_errors} ELSE {}

\* ------------------------------------------------------------------------
\* Extraction: from the parsed declarations to Struct descriptors
\* ------------------------------------------------------------------------
\* ast.Expr nodes
Ident(name) == [kind |-> "Ident", Name |-> name]
StarExpr(x) == [kind |-> "StarExpr", X |-> x]
ArrayType(elt) == [kind |-> "ArrayType", Elt |-> elt]
SelectorExpr(sel) == [kind |-> "SelectorExpr", Sel |-> sel]
MapType == [kind |-> "MapType"]

RECURSIVE GetFieldType(_)
GetFieldType(f) ==
    CASE f.kind = "Ident" -> f.Name
      [] f.kind = "StarExpr" ->
            IF f.X.kind # "Ident" THEN <<>> ELSE <<"*">> \o f.X.Name
      [] f.kind = "ArrayType" -> <<"[", "]">> \o GetFieldType(f.Elt)
      [] f.kind = "SelectorExpr" -> f.Sel
      [] OTHER -> <<>>

\* ast.Field of a struct type: its first name, its type, its tag (NilTag or
\* the literal)
AstField(name, type, tg) == [Names |-> <<name>>, Type |-> type, Tag |-> tg]

\* ast.Object: Decl is nil, a TypeSpec of a StructType, a TypeSpec of another
\* type, or another declaration
StructDecl(name, fields) ==
    [Decl |-> [kind |-> "TypeSpec", Name |-> name,
               Type |-> [kind |-> "StructType", Fields |-> fields]]]
AliasDecl(name) ==
    [Decl |-> [kind |-> "TypeSpec", Name |-> name, Type |-> [kind |-> "Ident"]]]
FuncDecl == [Decl |-> [kind |-> "FuncDecl"]]
NoDecl == [Decl |-> [kind |-> "nil"]]

\* Field{Name, Type, OverrideType}
Field(name, type, override) == [Name |-> name, Type |-> type, OverrideType |-> override]

\* len(match) > 1 && len(match[1]) > 1: the override is match[1], else ""
MatchOverride(match) ==
    IF Len(match) > 1 /\ Len(match[2]) > 1 THEN match[2] ELSE <<>>

\* the override of one field, from its tag
OverrideOf(tg) == MatchOverride(FindStringSubmatch(tg))

\* the last test of the iteration written without the test of the first letter
AppendField_NoExportTest(f) ==
    IF f.Type = <<>> /\ f.OverrideType = <<>> THEN <<>> ELSE <<f>>

\* the last test of the iteration: continue, or s.Fields = append(s.Fields, f)
AppendField(f) ==
    IF ~IsUpper(f.Name[1]) \/ (f.Type = <<>> /\ f.OverrideType = <<>>)
    THEN <<>>
    ELSE <<f>>

\* one iteration of the loop over st.Fields.List: the fields appended (none
\* on a continue)
StructFieldStep(field) ==
    IF field.Tag = NilTag \/ ~Contains(field.Tag, s_enkodo)
    THEN <<>>
    ELSE AppendField(Field(field.Names[1], GetFieldType(field.Type),
                           OverrideOf(field.Tag)))

RECURSIVE StructFieldLoop(_)
StructFieldLoop(list) ==
    IF list = <<>> THEN <<>>
    ELSE StructFieldStep(Head(list)) \o StructFieldLoop(Tail(list))

\* a map[string]string as a set of <<key, value>> pairs; the nil map
NilMap == [made |-> FALSE, m |-> {}]
MakeMap == [made |-> TRUE, m |-> {}]
HasKey(mp, key) == \E p \in mp.m : p[1] = key

\* *Struct: nil, or Struct{Name, Fields, _declared}; _declared is the nil
\* map until EncodeFunc makes it
NilStruct == [isNil |-> TRUE]
NewStruct(name, fields) ==
    [isNil |-> FALSE, Name |-> name, Fields |-> fields, declared |-> NilMap]

\* GetStructFields written without the test of len(s.Fields)
GetStructFields_KeepEmpty(obj) ==
    IF obj.Decl.kind = "nil" THEN NilStruct
    ELSE IF obj.Decl.kind # "TypeSpec" THEN NilStruct
    ELSE IF obj.Decl.Type.kind # "StructType" THEN NilStruct
    ELSE NewStruct(obj.Decl.Name, StructFieldLoop(obj.Decl.Type.Fields))

\* if len(s.Fields) > 0 { return s }; return nil
NonEmptyStruct(s) == IF Len(s.Fields) > 0 THEN s ELSE NilStruct

GetStructFields(obj) ==
    IF obj.Decl.kind = "nil" THEN NilStruct
    ELSE IF obj.Decl.kind # "TypeSpec" THEN NilStruct
    ELSE IF obj.Decl.Type.kind # "StructType" THEN NilStruct
    ELSE NonEmptyStruct(NewStruct(obj.Decl.Name, StructFieldLoop(obj.Decl.Type.Fields)))

\* ------------------------------------------------------------------------
\* The emitter
\* ------------------------------------------------------------------------
\* One emitted statement.  depth is identCount (the indentation written
\* before it); a loop holds the statements written between its opening and
\* its closing line.
\*   comment    // Do not know what to do with <name> (<typ>)
\*   enc        enc.<fn>(<expr>)
\*   encode     enc.Encode(<expr>)
\*   range      for _, v := range <expr> { <body> }
\*   makeBytes  <name> = make([]byte, 0)
\*   decBytes   if err = dec.Bytes(&<name>); err != nil { return }
\*   decIfV     if v, err := dec.<fn>(); err == nil { <name> = <expr> } else { return err }
\*   decAssign  if <name>, err = dec.<fn>(); err != nil { return err }
\*   new        <name> = new(<typ>)
\*   decode     if err = dec.Decode(<name>); err != nil { return }
\*   var        var <name> <typ>
\*   varNew     var <name> = new(<typ>)
\*   make       <name> = make(<typ>, 0, _arrLen)
\*   for        for i := 0; i < _arrLen; i++ { <body> }
\*   append     <name> = append(<name>, <expr>)
Stmt(op, depth, fn, name, typ, expr, body) ==
    [op |-> op, depth |-> depth, fn |-> fn, name |-> name, typ |-> typ,
     expr |-> expr, body |-> body]

Comment(depth, field) == Stmt("comment", depth, "", field.Name, field.Type, NoExpr, <<>>)

RECURSIVE EncodeField(_, _)

\* the list branch of EncodeField written without the length prefix
EncodeList_NoPrefix(identCount, name, field) ==
    << Stmt("range", identCount, "", <<>>, <<>>, name,
            EncodeField(identCount + 1, Field(s_v, SliceFrom(field.Type, 2), <<>>))) >>

\* the list branch of EncodeField: the length prefix, then the loop over the
\* elements
EncodeList(identCount, name, field) ==
    << Stmt("enc", identCount, "Int", <<>>, <<>>, Apply(name, "len", <<>>), <<>>),
       Stmt("range", identCount, "", <<>>, <<>>, name,
            EncodeField(identCount + 1, Field(s_v, SliceFrom(field.Type, 2), <<>>))) >>

EncodeField(identCount, field0) ==
    LET name == IF field0.OverrideType # <<>>
                THEN Apply(Ref(field0.Name), "cast", field0.OverrideType)
                ELSE Ref(field0.Name)
        field == IF field0.OverrideType # <<>>
                 THEN [field0 EXCEPT !.Type = field0.OverrideType]
                 ELSE field0
    IN  IF field.Type = <<>> \/ (field.Type[1] = "[" /\ Len(field.Type) = 2)
        THEN << Comment(identCount, field) >>
        ELSE IF HasConverter(field.Type)
        THEN LET conv == enc_types_advanced[field.Type]
             IN  << Stmt("enc", identCount, EnkodoFunction(conv), <<>>, <<>>,
                         Enc(conv, name), <<>>) >>
        ELSE IF field.Type[1] = "*"
        THEN << Stmt("encode", identCount, "Encode", <<>>, <<>>, name, <<>>) >>
        ELSE IF field.Type[1] = "["
        THEN EncodeList(identCount, name, field)
        ELSE << Comment(identCount, field) >>

\* initType: the declaration of the temporary of a list loop, and its name
initType(typ) ==
    LET clean_typ == Trim(typ, {"[", "]"})
        name == s_t
    IN  IF typ[1] = "*"
        THEN [init |-> Stmt("varNew", 0, "", name, clean_typ, NoExpr, <<>>), name |-> name]
        ELSE [init |-> Stmt("var", 0, "", name, clean_typ, NoExpr, <<>>), name |-> name]

\* The result of DecodeField: the statements written, s._declared after the
\* call, and whether the call panicked (an assignment to an entry of the nil
\* map), which ends the program.
DecodeResult(code, declared, panic) == [code |-> code, declared |-> declared, panic |-> panic]

\* the decode of a converter type written straight into the field whatever the
\* transform or the override
DecodeConverted_Direct(identCount, field, typ) ==
    << Stmt("decAssign", identCount, EnkodoFunction(enc_types_advanced[typ]), field.Name,
            <<>>, NoExpr, <<>>) >>

\* the decode of a converter type: with a transform or an override, through
\* the temporary v; otherwise straight into the field
DecodeConverted(identCount, field, typ) ==
    LET conv == enc_types_advanced[typ]
        d0 == Dec(conv, Ref(s_v))
        d == IF field.OverrideType # <<>>
             THEN Apply(IF d0 = NoExpr THEN Ref(s_v) ELSE d0, "cast", field.Type)
             ELSE d0
    IN  IF d # NoExpr
        THEN << Stmt("decIfV", identCount, EnkodoFunction(conv), field.Name, <<>>, d, <<>>) >>
        ELSE << Stmt("decAssign", identCount, EnkodoFunction(conv), field.Name, <<>>,
                     NoExpr, <<>>) >>

RECURSIVE DecodeField(_, _, _)

\* the statements of a list decode, given the declaration line (or none), the
\* length read, the temporary and the element decode
ListCode(identCount, field, varLine, rLen, it, rElem) ==
    varLine \o rLen.code \o
    << Stmt("make", identCount, "", field.Name, field.Type, Ref(s_arrLen), <<>>),
       Stmt("for", identCount, "", s_arrLen, <<>>, NoExpr,
            << [it.init EXCEPT !.depth = identCount + 1] >> \o rElem.code \o
            << Stmt("append", identCount + 1, "", field.Name, <<>>, Ref(it.name), <<>>) >>) >>

\* the list branch written with the temporary declared before the loop, beside
\* the field's other statements
DecodeList_TempBeforeLoop(declared, identCount, field) ==
    IF ~HasKey(declared, s_arrLen) /\ ~declared.made
    THEN DecodeResult(<<>>, declared, TRUE)
    ELSE LET fresh == ~HasKey(declared, s_arrLen)
             decl1 == IF fresh
                      THEN [declared EXCEPT !.m = @ \cup {<<s_arrLen, s_int>>}]
                      ELSE declared
             varLine == IF fresh
                        THEN << Stmt("var", identCount, "", s_arrLen, s_int, NoExpr, <<>>) >>
                        ELSE <<>>
             it == initType(field.Type)
             rLen == DecodeField(decl1, identCount, Field(s_arrLen, s_int, <<>>))
             rElem == DecodeField(rLen.declared, identCount + 1,
                                  Field(it.name, SliceFrom(field.Type, 2), <<>>))
         IN  DecodeResult(
                varLine \o << [it.init EXCEPT !.depth = identCount] >> \o rLen.code \o
                << Stmt("make", identCount, "", field.Name, field.Type, Ref(s_arrLen), <<>>),
                   Stmt("for", identCount, "", s_arrLen, <<>>, NoExpr,
                        rElem.code \o
                        << Stmt("append", identCount + 1, "", field.Name, <<>>,
                                Ref(it.name), <<>>) >>) >>,
                rElem.declared, rElem.panic)

\* the list branch written without the look into s._declared: every list
\* declares _arrLen
DecodeList_Redeclares(declared, identCount, field) ==
    IF ~declared.made
    THEN DecodeResult(<<>>, declared, TRUE)
    ELSE LET decl1 == [declared EXCEPT !.m = @ \cup {<<s_arrLen, s_int>>}]
             varLine == << Stmt("var", identCount, "", s_arrLen, s_int, NoExpr, <<>>) >>
             it == initType(field.Type)
             rLen == DecodeField(decl1, identCount, Field(s_arrLen, s_int, <<>>))
             rElem == DecodeField(rLen.declared, identCount + 1,
                                  Field(it.name, SliceFrom(field.Type, 2), <<>>))
         IN  DecodeResult(ListCode(identCount, field, varLine, rLen, it, rElem),
                          rElem.declared, rElem.panic)

\* the list branch of DecodeField: the declaration of _arrLen unless
\* s._declared has it, the length read, the buffer, the loop
DecodeList(declared, identCount, field) ==
    IF ~HasKey(declared, s_arrLen) /\ ~declared.made
    THEN DecodeResult(<<>>, declared, TRUE)
    ELSE LET fresh == ~HasKey(declared, s_arrLen)
             decl1 == IF fresh
                      THEN [declared EXCEPT !.m = @ \cup {<<s_arrLen, s_int>>}]
                      ELSE declared
             varLine == IF fresh
                        THEN << Stmt("var", identCount, "", s_arrLen, s_int, NoExpr, <<>>) >>
                        ELSE <<>>
             it == initType(field.Type)
             rLen == DecodeField(decl1, identCount, Field(s_arrLen, s_int, <<>>))
             rElem == DecodeField(rLen.declared, identCount + 1,
                                  Field(it.name, SliceFrom(field.Type, 2), <<>>))
         IN  DecodeResult(ListCode(identCount, field, varLine, rLen, it, rElem),
                          rElem.declared, rElem.panic)

DecodeField(declared, identCount, field) ==
    LET name == field.Name
        typ == IF field.OverrideType # <<>> THEN field.OverrideType ELSE field.Type
    IN  IF field.Type = <<>> \/ (field.Type[1] = "[" /\ Len(field.Type) = 2)
        THEN DecodeResult(<< Comment(identCount, field) >>, declared, FALSE)
        ELSE IF field.Type = s_bytes
        THEN DecodeResult(
                << Stmt("makeBytes", identCount, "", name, <<>>, NoExpr, <<>>),
                   Stmt("decBytes", identCount, "Bytes", name, <<>>, NoExpr, <<>>) >>,
                declared, FALSE)
        ELSE IF HasConverter(typ)
        THEN DecodeResult(DecodeConverted(identCount, field, typ), declared, FALSE)
        ELSE IF field.Type[1] = "*"
        THEN DecodeResult(
                << Stmt("new", identCount, "", name, Trim(field.Type, {"*"}), NoExpr, <<>>),
                   Stmt("decode", identCount, "Decode", name, <<>>, NoExpr, <<>>) >>,
                declared, FALSE)
        ELSE IF field.Type[1] = "["
        THEN DecodeList(declared, identCount, field)
        ELSE DecodeResult(<<>>, declared, FALSE)

\* an emitted procedure: its kind, receiver, record name and body
Func(kind, fnRef, name, body) == [kind |-> kind, recv |-> fnRef, Name |-> name, body |-> body]

\* field.Name = fnRef + "." + field.Name
Qualified(fnRef, field) == [field EXCEPT !.Name = fnRef \o <<".">> \o @]

RECURSIVE EncodeFields(_, _)

\* the loop of EncodeFunc taking s.Fields from the last to the first
EncodeFields_Reversed(fnRef, fields) ==
    IF fields = <<>> THEN <<>>
    ELSE EncodeFields(fnRef, Tail(fields)) \o EncodeField(1, Qualified(fnRef, Head(fields)))

\* the loop of EncodeFunc over s.Fields
EncodeFields(fnRef, fields) ==
    IF fields = <<>> THEN <<>>
    ELSE EncodeField(1, Qualified(fnRef, Head(fields))) \o EncodeFields(fnRef, Tail(fields))

\* EncodeFunc: the struct after the call (its _declared made anew) and the
\* procedure written
EncodeFunc(s) ==
    LET fnRef == ToLower(SubSeq(s.Name, 1, 1))
    IN  [s |-> [s EXCEPT !.declared = MakeMap],
         text |-> Func("MarshalEnkodo", fnRef, s.Name, EncodeFields(fnRef, s.Fields)),
         panic |-> FALSE]

\* the loop of DecodeFunc over s.Fields, threading s._declared; a panic ends it
RECURSIVE DecodeFields(_, _, _)
DecodeFields(declared, fnRef, fields) ==
    IF fields = <<>> THEN DecodeResult(<<>>, declared, FALSE)
    ELSE LET r == DecodeField(declared, 1, Qualified(fnRef, Head(fields)))
         IN  IF r.panic THEN r
             ELSE LET rest == DecodeFields(r.declared, fnRef, Tail(fields))
                  IN  DecodeResult(r.code \o rest.code, rest.declared, rest.panic)

DecodeFunc(s) ==
    LET fnRef == ToLower(SubSeq(s.Name, 1, 1))
        r == DecodeFields(s.declared, fnRef, s.Fields)
    IN  [s |-> [s EXCEPT !.declared = r.declared],
         text |-> Func("UnmarshalEnkodo", fnRef, s.Name, r.code),
         panic |-> r.panic]

\* ------------------------------------------------------------------------
\* The generator's state
\* ------------------------------------------------------------------------
VARIABLES
    pc,         \* where main is: "start", "loop", "exit0", "fatal"
    toStdout,   \* os.Args[2] == "-"
    nFiles,     \* len(files) after the walk
    idx,        \* the number of files the loop of main has handed on
    unit,       \* the objects of the file last parsed (fil.Scope.Objects)
    structs,    \* the structs of the last objectsInFile call, after it
    artifact,   \* what the last objectsInFile call wrote
    written,    \* per file handed on, whether an output was written for it
    exitCode,   \* the status of the process once it has ended, else -1
    args,       \* the command line: "help", "none" (no path), "path"
    parseErr,   \* parser.ParseFile has returned an error for a file
    runPc,      \* a run of the emitted procedures: "idle", "encoded", "decoded"
    src,        \* the record the emitted encode was called on, by field name
    stream,     \* the values the encode has written, in order
    encLog,     \* one entry per loop the encode has run
    dec         \* the state the emitted decode has ended in

genVars ==
    <<pc, toStdout, nFiles, idx, unit, structs, artifact, written, exitCode, args, parseErr>>
runVars == <<runPc, src, stream, encLog, dec>>
vars == <<genVars, runVars>>

\* ------------------------------------------------------------------------
\* Bounds and inputs
\* ------------------------------------------------------------------------
\* the most fields of a struct of the inputs
MaxFields == 2
\* the most objects of a file of the batch inputs
MaxObjects == 2
\* the most files of a walk
MaxFiles == 3

packageName == <<"github.com/nullmonk/enkodo">>

\* the field names by position, exported and not
ExportedNames == <<<<"A">>, <<"B">>, <<"C">>, <<"D">>>>
UnexportedNames == << <<"a">>, <<"b">>, <<"c">>, <<"d">> >>

\* the declared types of the inputs
TypeExprs ==
    { MapType,                                  \* ""
      StarExpr(StarExpr(Ident(s_User))),        \* ""
      ArrayType(MapType),                       \* "[]"
      ArrayType(ArrayType(MapType)),            \* "[][]"
      Ident(s_int64),
      Ident(s_error),
      Ident(s_Media),
      SelectorExpr(<<"T", "i", "m", "e">>),
      StarExpr(Ident(s_User)),
      ArrayType(Ident(s_byte)),
      ArrayType(Ident(s_int64)),
      ArrayType(StarExpr(Ident(s_User))),
      ArrayType(Ident(s_Media)),
      ArrayType(ArrayType(Ident(s_byte))),
      ArrayType(ArrayType(Ident(s_int64))) }

\* a field of the inputs before it has a name: exported or not, type, tag
Template(exported, type, tg) == [exported |-> exported, type |-> type, tg |-> tg]

FieldTemplates ==
    { Template(TRUE, t, tag_empty) : t \in TypeExprs }
    \cup { Template(TRUE, t, tag_string) :
             t \in { MapType, Ident(s_int64), Ident(s_Media), StarExpr(Ident(s_User)),
                     ArrayType(Ident(s_byte)), ArrayType(Ident(s_int64)) } }
    \cup { Template(TRUE, t, tag_Foo) :
             t \in { Ident(s_int64), StarExpr(Ident(s_User)), ArrayType(Ident(s_int64)) } }
    \cup { Template(TRUE, t, tag_T) : t \in { MapType, Ident(s_int64) } }
    \cup { Template(TRUE, Ident(s_int64), tg) : tg \in { NilTag, tag_json } }
    \cup { Template(FALSE, Ident(s_int64), tg) : tg \in { tag_empty, tag_string } }

\* the i-th field of a struct, from its template
FieldAt(i, tpl) ==
    AstField(IF tpl.exported THEN ExportedNames[i] ELSE UnexportedNames[i],
             tpl.type, tpl.tg)

\* the field lists of at most n fields over a set of templates
FieldLists(templates, n) ==
    UNION { { [i \in 1..k |-> FieldAt(i, c[i])] : c \in [1..k -> templates] } : k \in 0..n }

\* the files of one struct, of at most MaxFields fields over a set of templates
UnitsOver(templates) ==
    { << StructDecl(s_Post, fl) >> : fl \in FieldLists(templates, MaxFields) }

\* ------------------------------------------------------------------------
\* objectsInFile
\* ------------------------------------------------------------------------
\* the loop over fil.Scope.Objects, in the order the map iteration takes
\* if s == nil { continue }; structs = append(structs, s)
AppendStruct(s) == IF s = NilStruct THEN <<>> ELSE <<s>>

RECURSIVE CollectStructs(_)
CollectStructs(objs) ==
    IF objs = <<>> THEN <<>>
    ELSE AppendStruct(IF Head(objs).Decl.kind = "nil" THEN NilStruct
                      ELSE GetStructFields(Head(objs)))
         \o CollectStructs(Tail(objs))

\* the imports one field asks for
FieldImports(field) ==
    LET ty == IF field.OverrideType # <<>> THEN field.OverrideType ELSE field.Type
    IN  IF HasConverter(ty) THEN Imports(enc_types_advanced[ty]) ELSE {}

\* the keys of the imports map
ImportSet(sts) ==
    {packageName} \cup
    UNION { UNION { FieldImports(sts[i].Fields[j]) : j \in 1..Len(sts[i].Fields) } :
              i \in 1..Len(sts) }

NoArtifact == [created |-> FALSE, imports |-> <<>>, funcs |-> <<>>, panic |-> FALSE]

\* ------------------------------------------------------------------------
\* Running the emitted procedures
\* ------------------------------------------------------------------------
\* the most elements of a list of a record that is encoded
MaxLen == 2

\* Values.  A scalar is a number (a string is the number that names it); an
\* error carries the number of its message; a pointer carries its pointee.
IntVal(n) == [k |-> "int", n |-> n]
ErrVal(n) == [k |-> "err", msg |-> n]
ListVal(items) == [k |-> "list", items |-> items]
BytesVal(b) == [k |-> "bytes", b |-> b]
PtrVal(to) == [k |-> "ptr", to |-> to]
RecVal(id) == [k |-> "rec", id |-> id]
\* the zero value of a declared variable or of a field of a fresh record
Zero == [k |-> "zero"]

NumOf(v) == IF v.k = "int" THEN v.n ELSE 0
ItemsOf(v) == IF v.k = "list" THEN v.items ELSE <<>>

\* the conversion T(x) of the emitted code: the unsigned widths wrap
Convert(typ, v) ==
    IF v.k # "int" THEN v
    ELSE IF typ = s_uint8 THEN IntVal(v.n % 256)
    ELSE IF typ = s_uint16 THEN IntVal(v.n % 65536)
    ELSE v

\* one operation of an emitted expression on a value
ApplyOp(o, v) ==
    IF o.op = "cast" THEN Convert(o.typ, v)
    ELSE IF o.op = "Error" THEN (IF v.k = "err" THEN IntVal(v.msg) ELSE Zero)
    ELSE IF o.op = "errorsNew" THEN ErrVal(NumOf(v))
    ELSE IntVal(Len(ItemsOf(v)))

RECURSIVE EvalOps(_, _)
EvalOps(ops, v) ==
    IF ops = <<>> THEN v ELSE EvalOps(Tail(ops), ApplyOp(Head(ops), v))

\* the value of an emitted expression where env gives the variables
Eval(e, env) == EvalOps(e.ops, env[e.ref])

\* env with name bound to val
Bind(env, name, val) ==
    [n \in DOMAIN env \cup {name} |-> IF n = name THEN val ELSE env[n]]

\* The codec: a first-in-first-out stream of typed values.  An encoder
\* operation appends one value tagged with the operation; Encode appends the
\* record its argument points to.
Token(fn, v) == [fn |-> fn, v |-> v]
NoToken == [fn |-> "", v |-> Zero]
\* the encoder operation whose value a decoder operation reads
WrittenBy(fn) == IF fn = "Decode" THEN "Encode" ELSE fn
EncWrite(out, fn, v) == Append(out, Token(fn, v))

\* A decoder operation on the state ds of a decode: it fails when the stream
\* is at its end, when the next value was written by another operation, or
\* when it is the read picked to fail (ds.failAt); a failed read hands back
\* ds.junk.  The result says whether it succeeded, the value and the stream.
DecRead(ds, fn) ==
    IF ds.reads + 1 = ds.failAt \/ ds.stream = <<>>
    THEN [ok |-> FALSE, v |-> ds.junk, stream |-> ds.stream]
    ELSE IF Head(ds.stream).fn # WrittenBy(fn)
    THEN [ok |-> FALSE, v |-> ds.junk, stream |-> ds.stream]
    ELSE [ok |-> TRUE, v |-> Head(ds.stream).v, stream |-> Tail(ds.stream)]

\* The emitted encode.  es is the stream and the log of loops run: per loop,
\* the number of iterations, the number of iterations that wrote, and the
\* value that was last on the stream when the loop began.
RECURSIVE ExecEnc(_, _, _)
RECURSIVE RangeEnc(_, _, _, _)

RangeEnc(body, env, items, acc) ==
    IF items = <<>> THEN acc
    ELSE LET e1 == ExecEnc(body, Bind(env, s_v, Head(items)), acc.es)
         IN  RangeEnc(body, env, Tail(items),
                      [es |-> e1,
                       wrote |-> acc.wrote +
                                 (IF Len(e1.stream) > Len(acc.es.stream) THEN 1 ELSE 0)])

EncStep(s, env, es) ==
    IF s.op = "enc"
    THEN [es EXCEPT !.stream = EncWrite(@, s.fn, Eval(s.expr, env))]
    ELSE IF s.op = "encode"
    THEN [es EXCEPT !.stream = EncWrite(@, "Encode", Eval(s.expr, env).to)]
    ELSE IF s.op = "range"
    THEN LET items == ItemsOf(Eval(s.expr, env))
             before == IF es.stream = <<>> THEN NoToken ELSE es.stream[Len(es.stream)]
             r == RangeEnc(s.body, env, items, [es |-> es, wrote |-> 0])
         IN  [r.es EXCEPT !.log = Append(@, [iters |-> Len(items), wrote |-> r.wrote,
                                              before |-> before])]
    ELSE es

ExecEnc(stmts, env, es) ==
    IF stmts = <<>> THEN es
    ELSE ExecEnc(Tail(stmts), env, EncStep(Head(stmts), env, es))

\* The emitted decode.  Its state: the variables; the stream left; whether it
\* has returned, and with an error; the names assigned to; the names declared
\* in the block being run; the reads made; the statement whose read failed;
\* the last read; the buffers made, the appends and the loops ended, in order.
NoStmt == [op |-> "none"]
NoDec ==
    [env |-> <<>>, stream |-> <<>>, returned |-> FALSE, err |-> FALSE, assigned |-> {},
     locals |-> {}, reads |-> 0, failed |-> NoStmt, last |-> NoToken, log |-> <<>>,
     failAt |-> 0, junk |-> Zero]

DecStart(env, in, failAt, junk) ==
    [NoDec EXCEPT !.env = env, !.stream = in, !.failAt = failAt, !.junk = junk]

Assign(ds, name, val) ==
    [ds EXCEPT !.env = Bind(@, name, val), !.assigned = @ \cup {name}]
Declare(ds, name, val) ==
    [ds EXCEPT !.env = Bind(@, name, val), !.locals = @ \cup {name}]
\* the read of statement s has been made and has succeeded
ReadDone(ds, s, r) ==
    [ds EXCEPT !.stream = r.stream, !.reads = @ + 1, !.last = Token(s.fn, r.v)]
\* the read of statement s has failed: return err
ReadFailed(ds, s) ==
    [ds EXCEPT !.reads = @ + 1, !.err = TRUE, !.returned = TRUE, !.failed = s]

RECURSIVE ExecDec(_, _)
RECURSIVE ForDec(_, _, _)

\* a block: what it declares is gone once it ends
Block(body, ds) ==
    LET inner == ExecDec(body, [ds EXCEPT !.locals = {}])
    IN  [inner EXCEPT
            !.env = [n \in DOMAIN ds.env |->
                        IF n \in inner.locals THEN ds.env[n] ELSE inner.env[n]],
            !.locals = ds.locals]

DecStep(s, ds) ==
    LET r == DecRead(ds, s.fn)
    IN  IF s.op = "makeBytes" THEN Assign(ds, s.name, BytesVal(<<>>))
        ELSE IF s.op = "decBytes"
        THEN IF r.ok THEN Assign(ReadDone(ds, s, r), s.name, r.v) ELSE ReadFailed(ds, s)
        ELSE IF s.op = "decIfV"
        THEN IF r.ok
             THEN Assign(ReadDone(ds, s, r), s.name, Eval(s.expr, Bind(ds.env, s_v, r.v)))
             ELSE ReadFailed(ds, s)
        ELSE IF s.op = "decAssign"
        THEN IF r.ok
             THEN Assign(ReadDone(ds, s, r), s.name, r.v)
             ELSE Assign(ReadFailed(ds, s), s.name, r.v)
        ELSE IF s.op = "new" THEN Assign(ds, s.name, PtrVal(Zero))
        ELSE IF s.op = "decode"
        THEN IF r.ok THEN Assign(ReadDone(ds, s, r), s.name, PtrVal(r.v))
             ELSE ReadFailed(ds, s)
        ELSE IF s.op = "var" THEN Declare(ds, s.name, Zero)
        ELSE IF s.op = "varNew" THEN Declare(ds, s.name, PtrVal(Zero))
        ELSE IF s.op = "make"
        THEN [Assign(ds, s.name, ListVal(<<>>)) EXCEPT
                !.log = Append(@, [ev |-> "make", name |-> s.name, depth |-> s.depth,
                                   cap |-> NumOf(Eval(s.expr, ds.env)), last |-> ds.last])]
        ELSE IF s.op = "for" THEN ForDec(s, ds, 0)
        ELSE IF s.op = "append"
        THEN [Assign(ds, s.name,
                     ListVal(Append(ItemsOf(ds.env[s.name]), Eval(s.expr, ds.env)))) EXCEPT
                !.log = Append(@, [ev |-> "append", name |-> s.name, depth |-> s.depth])]
        ELSE ds

\* for i := 0; i < _arrLen; i++ { body }; a loop that ends is logged with the
\* number of times it has run
ForDec(s, ds, i) ==
    IF ds.returned THEN ds
    ELSE IF ~(i < NumOf(ds.env[s.name]))
    THEN [ds EXCEPT !.log = Append(@, [ev |-> "loop", depth |-> s.depth, iters |-> i])]
    ELSE ForDec(s, Block(s.body, ds), i + 1)

ExecDec(stmts, ds) ==
    IF stmts = <<>> \/ ds.returned THEN ds
    ELSE ExecDec(Tail(stmts), DecStep(Head(stmts), ds))

\* no run of the emitted procedures has begun
NoRun ==
    /\ runPc = "idle"
    /\ src = <<>>
    /\ stream = <<>>
    /\ encLog = <<>>
    /\ dec = NoDec

\* the loop over structs: EncodeFunc then DecodeFunc for each; a panic ends
\* the program where it is
RECURSIVE GenerateAll(_)
GenerateAll(sts) ==
    IF sts = <<>> THEN [structs |-> <<>>, funcs |-> <<>>, panic |-> FALSE]
    ELSE LET e == EncodeFunc(Head(sts))
             d == DecodeFunc(e.s)
         IN  IF d.panic
             THEN [structs |-> <<d.s>> \o Tail(sts), funcs |-> <<e.text, d.text>>,
                   panic |-> TRUE]
             ELSE LET rest == GenerateAll(Tail(sts))
                  IN  [structs |-> <<d.s>> \o rest.structs,
                       funcs |-> <<e.text, d.text>> \o rest.funcs,
                       panic |-> rest.panic]

\* the orders a map iteration can take over the elements of a sequence
Orders(n) == { p \in [1..n -> 1..n] : \A i, j \in 1..n : i # j => p[i] # p[j] }
Reorder(seq, p) == [i \in 1..Len(seq) |-> seq[p[i]]]

\* the orders a map iteration can take over a set of keys
SeqsOf(S) ==
    { q \in [1..Cardinality(S) -> S] : \A i, j \in 1..Cardinality(S) : i # j => q[i] # q[j] }

\* the output of objectsInFile once the procedures of the structs are written
Written(g, importOrder) ==
    [structs |-> g.structs,
     out |-> [created |-> TRUE, imports |-> importOrder, funcs |-> g.funcs,
              panic |-> g.panic]]

\* objectsInFile from the structs on: nothing for no struct, nothing when the
\* output file cannot be created
WriteStructs(sts, importOrder, createOk) ==
    IF Len(sts) = 0 THEN [structs |-> sts, out |-> NoArtifact]
    ELSE IF ~toStdout /\ ~createOk THEN [structs |-> sts, out |-> NoArtifact]
    ELSE Written(GenerateAll(sts), importOrder)

\* objectsInFile(file), for a file that parses to objs: the structs it is left
\* with and what it writes.  objOrder and importOrder are the orders the two
\* map iterations take, createOk whether os.Create succeeds.
objectsInFile(objs, objOrder, importOrder, createOk) ==
    WriteStructs(CollectStructs(Reorder(objs, objOrder)), importOrder, createOk)

\* ------------------------------------------------------------------------
\* main
\* ------------------------------------------------------------------------
GenInit ==
    /\ pc = "start"
    /\ toStdout = FALSE
    /\ nFiles = 0
    /\ idx = 0
    /\ unit = <<>>
    /\ structs = <<>>
    /\ artifact = NoArtifact
    /\ written = <<>>
    /\ exitCode = -1
    /\ args \in {"help", "none", "path"}
    /\ parseErr = FALSE
    /\ NoRun

\* -help or --help: the usage, exit 0
MainHelp ==
    /\ pc = "start"
    /\ args = "help"
    /\ pc' = "exit0"
    /\ exitCode' = 0
    /\ UNCHANGED <<toStdout, nFiles, idx, unit, structs, artifact, written>>
    /\ UNCHANGED <<args, parseErr>>
    /\ UNCHANGED runVars

\* no path: log.Fatal
MainNoPath ==
    /\ pc = "start"
    /\ args = "none"
    /\ pc' = "fatal"
    /\ exitCode' = 1
    /\ UNCHANGED <<toStdout, nFiles, idx, unit, structs, artifact, written>>
    /\ UNCHANGED <<args, parseErr>>
    /\ UNCHANGED runVars

\* the walk finds n files; none: log.Fatal
MainWalk ==
    /\ pc = "start"
    /\ args = "path"
    /\ \E n \in 0..MaxFiles, dash \in BOOLEAN :
          /\ nFiles' = n
          /\ toStdout' = dash
          /\ IF n = 0
             THEN pc' = "fatal" /\ exitCode' = 1
             ELSE pc' = "loop" /\ exitCode' = -1
    /\ UNCHANGED <<idx, unit, structs, artifact, written>>
    /\ UNCHANGED <<args, parseErr>>
    /\ UNCHANGED runVars

\* the iteration on a file that does not parse written to go on to the next
\* file
ParseFails_GoesOn ==
    /\ pc = "loop"
    /\ idx < nFiles
    /\ parseErr' = TRUE
    /\ idx' = idx + 1
    /\ written' = Append(written, FALSE)
    /\ UNCHANGED <<pc, exitCode, toStdout, nFiles, unit, structs, artifact, args>>
    /\ UNCHANGED runVars

\* one iteration of the loop of main on a file that does not parse: log.Fatalf
ParseFails ==
    /\ pc = "loop"
    /\ idx < nFiles
    /\ pc' = "fatal"
    /\ exitCode' = 1
    /\ UNCHANGED <<toStdout, nFiles, idx, unit, structs, artifact, written>>
    /\ parseErr' = TRUE
    /\ UNCHANGED args
    /\ UNCHANGED runVars

\* main after objectsInFile has returned r for the objects objs
AfterObjectsInFile(objs, r) ==
    /\ unit' = objs
    /\ structs' = r.structs
    /\ artifact' = r.out
    /\ written' = Append(written, r.out.created)
    /\ idx' = idx + 1
    /\ IF r.out.panic
       THEN pc' = "fatal" /\ exitCode' = 2
       ELSE pc' = pc /\ exitCode' = exitCode

\* one iteration of the loop of main on a file that parses to one of units
ObjectsInFile(units) ==
    /\ pc = "loop"
    /\ idx < nFiles
    /\ \E objs \in units, createOk \in BOOLEAN :
        \E objOrder \in Orders(Len(objs)) :
          \E importOrder \in SeqsOf(ImportSet(CollectStructs(objs))) :
            AfterObjectsInFile(objs, objectsInFile(objs, objOrder, importOrder, createOk))
    /\ UNCHANGED <<toStdout, nFiles>>
    /\ UNCHANGED <<args, parseErr>>
    /\ UNCHANGED runVars

\* the loop is over: main returns
MainReturn ==
    /\ pc = "loop"
    /\ idx = nFiles
    /\ pc' = "exit0"
    /\ exitCode' = 0
    /\ UNCHANGED <<toStdout, nFiles, idx, unit, structs, artifact, written>>
    /\ UNCHANGED <<args, parseErr>>
    /\ UNCHANGED runVars

\* ------------------------------------------------------------------------
\* The batch inputs: the declarations of example/basic, and a few more
\* ------------------------------------------------------------------------

\* type User struct of example/basic/basic.go
UserDecl ==
    StructDecl(s_User,
        << AstField(<<"E", "m", "a", "i", "l">>, Ident(s_string), tag_empty),
           AstField(<<"A", "g", "e">>, Ident(s_uint8), tag_empty),
           AstField(<<"T", "w", "i", "t", "t", "e", "r">>, Ident(<<"S", "o", "c", "i", "a", "l", "M", "e", "d", "i", "a">>), tag_string) >>)

\* type Post struct of example/basic/basic.go
PostDecl ==
    StructDecl(s_Post,
        << AstField(<<"N", "a", "m", "e">>, Ident(s_string), tag_empty),
           AstField(s_User, StarExpr(Ident(s_User)), tag_empty),
           AstField(<<"D", "a", "t", "a">>, ArrayType(Ident(s_byte)), tag_empty),
           AstField(<<"N", "u", "m", "b", "e", "r", "s">>, ArrayType(Ident(s_int64)), tag_empty),
           AstField(<<"U", "s", "e", "r", "s">>, ArrayType(StarExpr(Ident(s_User))), tag_empty) >>)

\* a struct none of whose fields has a tag
PlainDecl ==
    StructDecl(<<"P", "l", "a", "i", "n">>,
        << AstField(<<"E", "m", "a", "i", "l">>, Ident(s_string), NilTag),
           AstField(<<"A", "g", "e">>, Ident(s_uint8), NilTag) >>)

\* a struct with a field of the error converter
FailureDecl ==
    StructDecl(<<"F", "a", "i", "l", "u", "r", "e">>, << AstField(<<"E", "r", "r">>, Ident(s_error), tag_empty) >>)

\* a struct whose one field is a list of the error converter's type
FailuresDecl ==
    StructDecl(<<"F", "a", "i", "l", "u", "r", "e", "s">>,
        << AstField(<<"E", "r", "r", "s">>, ArrayType(Ident(s_error)), tag_empty) >>)

\* a struct whose fields are tagged and still not taken: one is not exported,
\* one has a type that is not classified and no override
HiddenDecl ==
    StructDecl(s_Media,
        << AstField(<<"i", "d">>, Ident(s_int64), tag_empty),
           AstField(<<"D", "a", "t", "a">>, MapType, tag_T) >>)

BatchObjects ==
    { NoDecl, FuncDecl, AliasDecl(<<"S", "o", "c", "i", "a", "l", "M", "e", "d", "i", "a">>), UserDecl, PostDecl, PlainDecl,
      FailureDecl, FailuresDecl, HiddenDecl }

\* the files of the batch inputs: at most MaxObjects objects, no two the same
BatchUnits ==
    UNION { { q \in [1..k -> BatchObjects] : \A i, j \in 1..k : i # j => q[i] # q[j] } :
              k \in 0..MaxObjects }

\* ------------------------------------------------------------------------
\* Specifications of the generator
\* ------------------------------------------------------------------------
\* the files of a walk: those of BatchUnits of at most one object, and one
\* of two structs
BatchFiles == { u \in BatchUnits : Len(u) <= 1 \/ u = << UserDecl, PostDecl >> }

\* the whole batch: main over files of BatchFiles
Init == GenInit

Next ==
    \/ MainHelp
    \/ MainNoPath
    \/ MainWalk
    \/ ParseFails
    \/ ObjectsInFile(BatchFiles)
    \/ MainReturn

Spec == Init /\ [][Next]_vars

\* one record at a time: main has found one file, which holds one struct of
\* at most MaxFields fields over FieldTemplates
RecordInit ==
    /\ pc = "loop"
    /\ toStdout = FALSE
    /\ nFiles = 1
    /\ idx = 0
    /\ unit = <<>>
    /\ structs = <<>>
    /\ artifact = NoArtifact
    /\ written = <<>>
    /\ exitCode = -1
    /\ args = "path"
    /\ parseErr = FALSE
    /\ NoRun

RecordNext ==
    \/ ObjectsInFile(UnitsOver(FieldTemplates))
    \/ MainReturn

SpecRecord == RecordInit /\ [][RecordNext]_vars

\* one file at a time: main has found one file, which holds at most
\* MaxObjects of BatchObjects
FileNext ==
    \/ ObjectsInFile(BatchUnits)
    \/ MainReturn

SpecFile == RecordInit /\ [][FileNext]_vars

\* ------------------------------------------------------------------------
\* Reading the emitted procedures
\* ------------------------------------------------------------------------
\* every statement of a body, a loop before the statements of its body
RECURSIVE AllStmts(_)
AllStmts(body) ==
    IF body = <<>> THEN <<>>
    ELSE << Head(body) >> \o AllStmts(Head(body).body) \o AllStmts(Tail(body))

\* every block of a body: the body, and the body of every loop in it
RECURSIVE Blocks(_)
Blocks(body) ==
    {body} \cup UNION { Blocks(body[k].body) : k \in 1..Len(body) }

\* the i-th struct of the last call has its two procedures in the output
Generated(i) ==
    /\ artifact.created
    /\ i \in 1..Len(structs)
    /\ 2 * i <= Len(artifact.funcs)

EncBody(i) == artifact.funcs[2 * i - 1].body
DecBody(i) == artifact.funcs[2 * i].body

\* the name a field of the i-th struct has in the emitted procedures
QName(i, f) == artifact.funcs[2 * i].recv \o <<".">> \o f.Name

IsCodecWrite(st) == st.op \in {"enc", "encode"}
IsCodecRead(st) == st.op \in {"decBytes", "decIfV", "decAssign", "decode"}
IsDeclaration(st) == st.op \in {"var", "varNew"}

\* the fields an encode body writes, in the order it writes them: a field's
\* first write is a top-level enc or encode on it (for a list, its length)
EncFieldOrder(body) ==
    LET w == SelectSeq(body, IsCodecWrite)
    IN  [k \in 1..Len(w) |-> w[k].expr.ref]

\* the fields a decode body reads, in the order it reads them: a top-level
\* read into the field, or (for a list) the buffer made once its length is read
ReadsField(st) == (IsCodecRead(st) /\ st.name # s_arrLen) \/ st.op = "make"
DecFieldOrder(body) ==
    LET r == SelectSeq(body, ReadsField)
    IN  [k \in 1..Len(r) |-> r[k].name]

\* the codec operations one field gets at the top level of a body
EncOpsOf(body, q) ==
    LET w == SelectSeq(body, LAMBDA st : IsCodecWrite(st) /\ st.expr.ref = q)
    IN  [k \in 1..Len(w) |-> w[k].fn]
DecOpsOf(body, q) ==
    LET r == SelectSeq(body, LAMBDA st : ReadsField(st) /\ st.name = q)
    IN  [k \in 1..Len(r) |-> IF r[k].op = "make" THEN "Int" ELSE r[k].fn]

\* the top-level statements of a body that are about one field
EncStmtsOf(body, q) == SelectSeq(body, LAMBDA st : st.expr.ref = q \/ st.name = q)
DecStmtsOf(body, q) == SelectSeq(body, LAMBDA st : st.name = q)

\* ------------------------------------------------------------------------
\* C1  Positional integrity: the decode body reads a field exactly when the
\* encode body writes it, and both handle the fields in the same order (with
\* or without an override, whatever the declared type).
\* ------------------------------------------------------------------------
C1_PositionalIntegrity ==
    \A i \in 1..Len(structs) :
        Generated(i) => EncFieldOrder(EncBody(i)) = DecFieldOrder(DecBody(i))

\* ------------------------------------------------------------------------
\* C3  A field with an override of the registry gets the codec operation of
\* the override, in the encode body and in the decode body, whatever its
\* declared type is.
\* ------------------------------------------------------------------------
C3_OverrideSelectsOperation ==
    \A i \in 1..Len(structs) :
        Generated(i) =>
            \A j \in 1..Len(structs[i].Fields) :
                LET f == structs[i].Fields[j]
                    fn == EnkodoFunction(enc_types_advanced[f.OverrideType])
                IN  (f.OverrideType # <<>> /\ f.OverrideType \in DOMAIN enc_types_advanced)
                    => /\ EncOpsOf(EncBody(i), QName(i, f)) = << fn >>
                       /\ DecOpsOf(DecBody(i), QName(i, f)) = << fn >>

\* ------------------------------------------------------------------------
\* C4  A field is in the descriptor of its record only if it has a tag that
\* holds the annotation, its name is exported, and it has a declared type
\* (a non-empty type string) or an override; the emitted bodies name no
\* other field.
\* ------------------------------------------------------------------------
IsRecord(obj) == obj.Decl.kind = "TypeSpec" /\ obj.Decl.Type.kind = "StructType"
RawFields(obj) == { obj.Decl.Type.Fields[k] : k \in 1..Len(obj.Decl.Type.Fields) }
Annotated(rf) == rf.Tag # NilTag /\ Contains(rf.Tag, s_enkodo)
Exported(rf) == rf.Names[1][1] \in UpperChars

\* the object of the file a struct was made from
ObjectOf(s) == CHOOSE obj \in { unit[k] : k \in 1..Len(unit) } :
                   IsRecord(obj) /\ obj.Decl.Name = s.Name

EligibleRaw(rf) ==
    /\ Annotated(rf)
    /\ Exported(rf)
    /\ (GetFieldType(rf.Type) # <<>> \/ OverrideOf(rf.Tag) # <<>>)

NoEligibleField(obj) == \A rf \in RawFields(obj) : ~EligibleRaw(rf)

C5_NoProceduresWithoutFields ==
    /\ \A k \in 1..Len(unit) :
          (IsRecord(unit[k]) /\ NoEligibleField(unit[k])) =>
              /\ \A i \in 1..Len(structs) : structs[i].Name # unit[k].Decl.Name
              /\ \A n \in 1..Len(artifact.funcs) : artifact.funcs[n].Name # unit[k].Decl.Name
    /\ (\A k \in 1..Len(unit) : IsRecord(unit[k]) => NoEligibleField(unit[k]))
          => (~artifact.created /\ artifact.funcs = <<>>)

\* a file that holds a record with no eligible field beside one that has
\* some was processed, and has an output
C5_Witness ==
    /\ artifact.created
    /\ \E k \in 1..Len(unit) : IsRecord(unit[k]) /\ NoEligibleField(unit[k])
    /\ \E k \in 1..Len(unit) : IsRecord(unit[k]) /\ ~NoEligibleField(unit[k])

\* ------------------------------------------------------------------------
\* A run: generate for one record, call the emitted encode on a populated
\* record, then the emitted decode on what it wrote into a fresh record
\* ------------------------------------------------------------------------
\* the field shapes of the records that are run
RunTemplates ==
    { Template(TRUE, Ident(s_int64), tag_empty),
      Template(TRUE, Ident(s_error), tag_empty),
      Template(TRUE, Ident(s_Media), tag_string),
      Template(TRUE, Ident(s_int64), tag_uint8),
      Template(TRUE, StarExpr(Ident(s_User)), tag_empty),
      Template(TRUE, ArrayType(Ident(s_byte)), tag_empty),
      Template(TRUE, ArrayType(Ident(s_int64)), tag_empty),
      Template(TRUE, ArrayType(StarExpr(Ident(s_User))), tag_empty) }


\* the values a populated field of a declared type is given: lists of every
\* length up to MaxLen
RECURSIVE SampleSeq(_)
SampleSeq(typ) ==
    IF typ = <<>> THEN << Zero >>
    ELSE IF typ = s_bytes THEN << BytesVal(<<1, 2>>), BytesVal(<<>>) >>
    ELSE IF typ[1] = "["
    THEN LET el == SampleSeq(SliceFrom(typ, 2))
         IN  [n \in 1..(MaxLen + 1) |->
                ListVal([i \in 1..(n - 1) |-> el[((i - 1) % Len(el)) + 1]])]
    ELSE IF typ[1] = "*" THEN << PtrVal(RecVal(1)), PtrVal(RecVal(2)) >>
    ELSE IF typ = s_error THEN << ErrVal(5), ErrVal(6) >>
    ELSE << IntVal(5), IntVal(300) >>

Samples(typ) == { SampleSeq(typ)[k] : k \in 1..Len(SampleSeq(typ)) }

\* the populated records of the struct that has been generated for
Populated ==
    LET fs == structs[1].Fields
    IN  { [q \in { QName(1, fs[j]) : j \in 1..Len(fs) } |->
              LET j == CHOOSE j \in 1..Len(fs) : QName(1, fs[j]) = q IN c[j]] :
          c \in { c \in [1..Len(fs) -> UNION { Samples(fs[j].Type) : j \in 1..Len(fs) }] :
                    \A j \in 1..Len(fs) : c[j] \in Samples(fs[j].Type) } }

\* a fresh record: every field at its zero value
Fresh ==
    LET fs == structs[1].Fields
    IN  [q \in { QName(1, fs[j]) : j \in 1..Len(fs) } |-> Zero]

\* what a failed read can hand back
Junk == { IntVal(0), IntVal(9) }

\* the emitted MarshalEnkodo of the record, called on a populated record
MarshalEnkodo ==
    /\ runPc = "idle"
    /\ Generated(1)
    /\ ~artifact.panic
    /\ \E rec \in Populated :
          LET es == ExecEnc(EncBody(1), rec, [stream |-> <<>>, log |-> <<>>])
          IN  /\ src' = rec
              /\ stream' = es.stream
              /\ encLog' = es.log
    /\ runPc' = "encoded"
    /\ UNCHANGED <<genVars, dec>>

\* the emitted UnmarshalEnkodo, called on a fresh record with a decoder over
\* what the encode wrote; the decoder may fail at one of its reads
UnmarshalEnkodo ==
    /\ runPc = "encoded"
    /\ \E failAt \in 0..Len(stream), junk \in Junk :
          /\ failAt = 0 => junk = IntVal(0)
          /\ dec' = ExecDec(DecBody(1), DecStart(Fresh, stream, failAt, junk))
    /\ runPc' = "decoded"
    /\ UNCHANGED <<genVars, src, stream, encLog>>

RunNext ==
    \/ ObjectsInFile(UnitsOver(RunTemplates))
    \/ MarshalEnkodo
    \/ UnmarshalEnkodo
    \/ MainReturn

SpecRun == RecordInit /\ [][RunNext]_vars

\* the same run for records of lists of lists
NestedTemplates ==
    { Template(TRUE, Ident(s_int64), tag_empty),
      Template(TRUE, ArrayType(Ident(s_int64)), tag_empty),
      Template(TRUE, ArrayType(ArrayType(Ident(s_int64))), tag_empty) }

NestedNext ==
    \/ ObjectsInFile(UnitsOver(NestedTemplates))
    \/ MarshalEnkodo
    \/ UnmarshalEnkodo
    \/ MainReturn

SpecNested == RecordInit /\ [][NestedNext]_vars


\* ------------------------------------------------------------------------
\* EncodeFunc and DecodeFunc called in any order
\* ------------------------------------------------------------------------
\* the most calls made on the structs of one file
MaxCalls == 3

\* the structs of a file are collected and the output is open; no procedure
\* is written yet
CallsInit ==
    /\ pc = "calls"
    /\ toStdout = TRUE
    /\ nFiles = 1
    /\ idx = 0
    /\ unit \in UnitsOver(NestedTemplates)
    /\ structs = CollectStructs(unit)
    /\ artifact = [NoArtifact EXCEPT !.created = TRUE]
    /\ written = <<>>
    /\ exitCode = -1
    /\ args = "path"
    /\ parseErr = FALSE
    /\ NoRun

\* a call of procedure fn on the i-th struct, r what it gives; a panic ends
\* the program
AfterCall(fn, i, r) ==
    /\ pc \in {"calls", "EncodeFunc", "DecodeFunc"}
    /\ ~artifact.panic
    /\ Len(artifact.funcs) < MaxCalls
    /\ pc' = fn
    /\ idx' = i
    /\ structs' = [structs EXCEPT ![i] = r.s]
    /\ artifact' = [artifact EXCEPT !.funcs = Append(@, r.text), !.panic = r.panic]
    /\ UNCHANGED <<toStdout, nFiles, unit, written, exitCode, args, parseErr>>
    /\ UNCHANGED runVars

CallEncodeFunc ==
    \E i \in 1..Len(structs) : AfterCall("EncodeFunc", i, EncodeFunc(structs[i]))

CallDecodeFunc ==
    \E i \in 1..Len(structs) : AfterCall("DecodeFunc", i, DecodeFunc(structs[i]))

CallsNext ==
    \/ CallEncodeFunc
    \/ CallDecodeFunc

SpecCalls == CallsInit /\ [][CallsNext]_vars

\* ------------------------------------------------------------------------
\* C8  Temporaries of list loops in a decode body.
\* ------------------------------------------------------------------------
\* the positions of a sequence of statements that declare a name
DeclsOf(stmts, name) ==
    { k \in 1..Len(stmts) : IsDeclaration(stmts[k]) /\ stmts[k].name = name }

\* the declarations of the temporary t in the loops of the top-level list
\* fields of a decode body (the sibling lists), as positions of the body
SiblingTemps(body) ==
    { k \in 1..Len(body) : body[k].op = "for" /\ DeclsOf(body[k].body, s_t) # {} }

UsesArrLen(st) ==
    \/ st.op = "decAssign" /\ st.name = s_arrLen
    \/ st.op = "make"
    \/ st.op = "for"

UsesOf(stmts) == { k \in 1..Len(stmts) : UsesArrLen(stmts[k]) }

\* a field the decode takes as a list: a sequence type other than "[]" and
\* []byte, not replaced by an override of the registry
IsListField(f) ==
    /\ Len(f.Type) > 2
    /\ f.Type[1] = "["
    /\ f.Type # s_bytes
    /\ f.OverrideType \notin DOMAIN enc_types_advanced

C9_ArrLenDeclaredOnce ==
    \A i \in 1..Len(structs) :
        Generated(i) =>
            LET all == AllStmts(DecBody(i))
                decls == DeclsOf(all, s_arrLen)
                hasList == \E j \in 1..Len(structs[i].Fields) :
                               IsListField(structs[i].Fields[j])
            IN  /\ hasList =>
                      /\ Cardinality(decls) = 1
                      /\ UsesOf(all) # {}
                      /\ \A d \in decls :
                            /\ all[d].depth = 1
                            /\ all[d].typ = s_int
                            /\ \A u \in UsesOf(all) : d < u
                /\ ~hasList => (decls = {} /\ UsesOf(all) = {})

\* a record with two list fields, one of them a list of lists, was generated:
\* three loops, one declaration
C9_Witness ==
    /\ Len(structs) = 1
    /\ Generated(1)
    /\ Cardinality({ k \in 1..Len(AllStmts(DecBody(1))) :
                       AllStmts(DecBody(1))[k].op = "for" }) = 3
    /\ Cardinality(DeclsOf(AllStmts(DecBody(1)), s_arrLen)) = 1

\* ------------------------------------------------------------------------
\* C10  A []byte field without an override is one Bytes call in the encode
\* body and one in the decode body, with no length prefix and no loop; so is
\* a []byte that is the element of a list.
\* ------------------------------------------------------------------------
IsBytesWrite(st, name) ==
    st.op = "enc" /\ st.fn = "Bytes" /\ st.expr = Ref(name) /\ st.body = <<>>

\* the statements of a decode body that are about one []byte: the buffer is
\* made, then read by one Bytes call
IsBytesRead(stmts, name) ==
    /\ Len(stmts) = 2
    /\ stmts[1].op = "makeBytes" /\ stmts[1].name = name
    /\ stmts[2].op = "decBytes" /\ stmts[2].fn = "Bytes" /\ stmts[2].name = name

s_listOfBytes == <<"[", "]">> \o s_bytes

C10_BytesAreOneCall ==
    \A i \in 1..Len(structs) :
        Generated(i) =>
            \A j \in 1..Len(structs[i].Fields) :
                LET f == structs[i].Fields[j]
                    q == QName(i, f)
                    e == EncStmtsOf(EncBody(i), q)
                    d == DecStmtsOf(DecBody(i), q)
                IN  /\ (f.Type = s_bytes /\ f.OverrideType = <<>>) =>
                          /\ Len(e) = 1 /\ IsBytesWrite(e[1], q)
                          /\ IsBytesRead(d, q)
                    /\ (f.Type = s_listOfBytes /\ f.OverrideType = <<>>) =>
                          /\ Len(e) = 2
                          /\ e[2].op = "range"
                          /\ Len(e[2].body) = 1
                          /\ IsBytesWrite(e[2].body[1], s_v)
                          /\ \E k \in 1..Len(DecBody(i)) :
                                /\ DecBody(i)[k].op = "make"
                                /\ DecBody(i)[k].name = q
                                /\ DecBody(i)[k + 1].op = "for"
                                /\ IsBytesRead(
                                      SelectSeq(DecBody(i)[k + 1].body,
                                                LAMBDA st : ~IsDeclaration(st)
                                                            /\ st.op # "append"),
                                      s_t)

\* a record with a []byte field and a list of []byte was generated
C10_Witness ==
    /\ Len(structs) = 1
    /\ Generated(1)
    /\ Len(structs[1].Fields) = 2
    /\ structs[1].Fields[1].Type = s_bytes
    /\ structs[1].Fields[1].OverrideType = <<>>
    /\ structs[1].Fields[2].Type = s_listOfBytes
    /\ structs[1].Fields[2].OverrideType = <<>>

\* ------------------------------------------------------------------------
\* C2  Round-trip law: the emitted decode, run without a failing read on what
\* the emitted encode wrote for a populated record, ends without an error,
\* has read everything written, and leaves in every field of the fresh record
\* the value the field had in the source; for a field with an override, that
\* value taken through the override's conversion and back.
\* ------------------------------------------------------------------------
\* what a field holding v is to hold after the round trip
Expected(f, v) ==
    IF f.OverrideType # <<>> THEN Convert(f.Type, Convert(f.OverrideType, v)) ELSE v

C2_RoundTrip ==
    (runPc = "decoded" /\ dec.failAt = 0) =>
        /\ ~dec.err
        /\ dec.stream = <<>>
        /\ \A j \in 1..Len(structs[1].Fields) :
              LET f == structs[1].Fields[j]
              IN  dec.env[QName(1, f)] = Expected(f, src[QName(1, f)])

\* a round trip of a record of a full list and of a field whose override
\* loses part of the value
C2_Witness ==
    /\ runPc = "decoded"
    /\ dec.failAt = 0
    /\ \E q \in DOMAIN src : src[q].k = "list" /\ Len(src[q].items) = MaxLen
    /\ \E j \in 1..Len(structs[1].Fields) :
          LET f == structs[1].Fields[j]
          IN  /\ f.OverrideType = s_uint8
              /\ src[QName(1, f)] = IntVal(300)
              /\ dec.env[QName(1, f)] = IntVal(44)

\* ------------------------------------------------------------------------
\* C6  A failed read of a bare-name (Primitive) field
\* ------------------------------------------------------------------------
\* the decode has returned the failure of the read of a Primitive field
PrimitiveReadFailed ==
    /\ runPc = "decoded"
    /\ dec.err
    /\ dec.failed.op \in {"decAssign", "decIfV"}
    /\ dec.failed.depth = 1
    /\ dec.failed.name # s_arrLen

\* the position in the struct of the field whose read failed
FailedAt == CHOOSE j \in 1..Len(structs[1].Fields) :
                QName(1, structs[1].Fields[j]) = dec.failed.name

\* the decode of a field goes through the temporary v: it has an override, or
\* its converter has a decode transform
ThroughTemp(f) ==
    \/ f.OverrideType # <<>>
    \/ (HasConverter(f.Type) /\ Dec(enc_types_advanced[f.Type], Ref(s_v)) # NoExpr)

\* C6 as stated: when the read of a Primitive field fails, no later read is
\* made and the field has not been assigned to
C6_FailedReadLeavesFieldUnassigned ==
    PrimitiveReadFailed =>
        /\ dec.reads = dec.failAt
        /\ dec.failed.name \notin dec.assigned

\* C6 as amended: when the read of a Primitive field fails, the decode returns
\* at once: no later read is made and no later field is touched.  The field
\* itself is left as it was only when its decode goes through the temporary v
\* (an override or a decode transform); a field read straight from the codec
\* has been assigned what the failed read handed back.
C6_FailFast ==
    PrimitiveReadFailed =>
        LET fs == structs[1].Fields
            f == fs[FailedAt]
            q == dec.failed.name
        IN  /\ dec.returned
            /\ dec.reads = dec.failAt
            /\ \A j \in (FailedAt + 1)..Len(fs) :
                  /\ QName(1, fs[j]) \notin dec.assigned
                  /\ dec.env[QName(1, fs[j])] = Zero
            /\ ThroughTemp(f) => (q \notin dec.assigned /\ dec.env[q] = Zero)
            /\ ~ThroughTemp(f) => (q \in dec.assigned /\ dec.env[q] = dec.junk)

\* the read of the first of two fields, a field read straight from the codec,
\* has failed and the field holds what the failed read handed back
C6_Witness ==
    /\ PrimitiveReadFailed
    /\ Len(structs[1].Fields) = 2
    /\ FailedAt = 1
    /\ dec.failed.op = "decAssign"
    /\ dec.env[dec.failed.name] = IntVal(9)

\* ------------------------------------------------------------------------
\* C7  For every list field the encode runs one loop; the value written just
\* before the loop is an integer equal to the number of elements the loop
\* writes.  Every buffer the decode makes has for capacity the integer it has
\* just read, and nothing is appended to a list before its buffer is made.
\* ------------------------------------------------------------------------
ListFields == { j \in 1..Len(structs[1].Fields) : IsListField(structs[1].Fields[j]) }

C7_LengthPrefixIsElementCount ==
    /\ runPc \in {"encoded", "decoded"} =>
          /\ Len(encLog) = Cardinality(ListFields)
          /\ \A k \in 1..Len(encLog) :
                /\ encLog[k].before.fn = "Int"
                /\ encLog[k].before.v = IntVal(encLog[k].wrote)
                /\ encLog[k].wrote = encLog[k].iters
    /\ runPc = "decoded" =>
          \A k \in 1..Len(dec.log) :
              /\ dec.log[k].ev = "make" =>
                    /\ dec.log[k].last.fn = "Int"
                    /\ dec.log[k].last.v = IntVal(dec.log[k].cap)
              /\ dec.log[k].ev = "append" =>
                    \E m \in 1..(k - 1) :
                        dec.log[m].ev = "make" /\ dec.log[m].name = dec.log[k].name
    /\ (runPc = "decoded" /\ dec.failAt = 0) =>
          Len(SelectSeq(dec.log, LAMBDA e : e.ev = "make")) = Cardinality(ListFields)

\* two full lists have been encoded and decoded
C7_Witness ==
    /\ runPc = "decoded"
    /\ dec.failAt = 0
    /\ Len(encLog) = 2
    /\ \A k \in 1..Len(encLog) : encLog[k].wrote = MaxLen
    /\ Len(SelectSeq(dec.log, LAMBDA e : e.ev = "append")) = 2 * MaxLen

\* ------------------------------------------------------------------------
\* C11  The imports written for a file are the codec package and the imports
\* of every converter the emitted bodies of the file invoke, at the top level
\* or on the elements of a list, and no other.
\* ------------------------------------------------------------------------
\* the imports of the converter a statement invokes: the error converter is
\* the one whose Enc and Dec wrap the value
ImportsInvokedBy(st) ==
    IF \E k \in 1..Len(st.expr.ops) : st.expr.ops[k].op \in {"Error", "errorsNew"}
    THEN Imports(ErrorTypeConverter)
    ELSE {}

\* the imports of the converters the procedures written invoke
ImportsInvoked ==
    UNION { UNION { ImportsInvokedBy(AllStmts(artifact.funcs[i].body)[k]) :
                      k \in 1..Len(AllStmts(artifact.funcs[i].body)) } :
              i \in 1..Len(artifact.funcs) }

C11_ImportsAreThoseInvoked ==
    artifact.created =>
        { artifact.imports[k] : k \in 1..Len(artifact.imports) }
            = {packageName} \cup ImportsInvoked

\* ------------------------------------------------------------------------
\* C12  A field of a descriptor whose annotation has a value of one character
\* or more has that value for override; a field whose annotation has the
\* empty value has no override.
\* ------------------------------------------------------------------------
\* the characters of s from position j up to the next double quote
RECURSIVE UpToQuote(_, _)
UpToQuote(s, j) ==
    IF j > Len(s) \/ s[j] = "\"" THEN <<>> ELSE << s[j] >> \o UpToQuote(s, j + 1)

\* the value of the enkodo annotation of a tag that has one
AnnotationValue(tg) ==
    LET i == CHOOSE i \in 1..Len(tg) :
                 /\ i + Len(tagPrefix) - 1 <= Len(tg)
                 /\ SubSeq(tg, i, i + Len(tagPrefix) - 1) = tagPrefix
    IN  UpToQuote(tg, i + Len(tagPrefix))

C12_NonEmptyOverrideAttached ==
    \A i \in 1..Len(structs) :
        \A j \in 1..Len(structs[i].Fields) :
            \A rf \in RawFields(ObjectOf(structs[i])) :
                rf.Names[1] = structs[i].Fields[j].Name =>
                    structs[i].Fields[j].OverrideType = AnnotationValue(rf.Tag)

\* ------------------------------------------------------------------------
\* C13  The batch: the program ends with a non-zero status when no path is
\* given, when the walk finds no file, and when a file does not parse.  A
\* file that does not parse ends the program where it is: the files after it
\* are not handed on, nothing more is written, and what was written for the
\* files before it stays.
\* ------------------------------------------------------------------------
Ended == pc \in {"exit0", "fatal"}

C13_BatchAbortsOnFailure ==
    /\ [](/\ Ended <=> exitCode # -1
          /\ (Ended /\ args = "none") => exitCode # 0
          /\ (Ended /\ args = "path" /\ nFiles = 0) => exitCode # 0
          /\ parseErr => (Ended /\ exitCode # 0)
          /\ exitCode = 0 => (idx = nFiles /\ ~parseErr)
          /\ Len(written) = idx)
    /\ [][/\ ~Ended
          /\ Len(written') >= Len(written)
          /\ SubSeq(written', 1, Len(written)) = written]_vars

\* a file did not parse after a file an output was written for and before
\* another file
C13_Witness ==
    /\ parseErr
    /\ pc = "fatal"
    /\ exitCode = 1
    /\ idx >= 1
    /\ idx + 1 < nFiles
    /\ written[1]

\* ------------------------------------------------------------------------
\* C14  A decode that no read fails in ends without an error, and for every
\* list it decodes, at every depth, the loop of the list runs as many times
\* as the length read for it and appends that many elements to it.
\* ------------------------------------------------------------------------
\* the position in the log of the end of the loop of the list made at m
LoopOf(m) ==
    CHOOSE k \in (m + 1)..Len(dec.log) :
        /\ dec.log[k].ev = "loop"
        /\ dec.log[k].depth = dec.log[m].depth
        /\ \A j \in (m + 1)..(k - 1) :
              ~(dec.log[j].ev = "loop" /\ dec.log[j].depth = dec.log[m].depth)

HasLoop(m) ==
    \E k \in (m + 1)..Len(dec.log) :
        dec.log[k].ev = "loop" /\ dec.log[k].depth = dec.log[m].depth

\* the appends of the loop of the list made at m
AppendsOf(m) ==
    { j \in (m + 1)..(LoopOf(m) - 1) :
        dec.log[j].ev = "append" /\ dec.log[j].depth = dec.log[m].depth + 1 }

C14_LoopRunsLengthTimes ==
    (runPc = "decoded" /\ dec.failAt = 0) =>
        /\ ~dec.err
        /\ \A m \in 1..Len(dec.log) :
              dec.log[m].ev = "make" =>
                  /\ HasLoop(m)
                  /\ dec.log[LoopOf(m)].iters = dec.log[m].cap
                  /\ Cardinality(AppendsOf(m)) = dec.log[m].cap

\* ------------------------------------------------------------------------
\* C15  A field of Unknown type (the empty type string, or list markers to
\* any depth around nothing: "[]", "[][]", ...) and of no override gets no
\* instruction in the encode body and none in the decode body: at most a
\* comment.
\* ------------------------------------------------------------------------
IsUnknownType(typ) == Trim(typ, {"[", "]"}) = <<>>

OnlyComments(stmts) == \A k \in 1..Len(stmts) : stmts[k].op = "comment"

C15_UnknownEmitsNothing ==
    \A i \in 1..Len(structs) :
        Generated(i) =>
            \A j \in 1..Len(structs[i].Fields) :
                LET f == structs[i].Fields[j]
                IN  (f.OverrideType = <<>> /\ IsUnknownType(f.Type)) =>
                        /\ OnlyComments(EncStmtsOf(EncBody(i), QName(i, f)))
                        /\ OnlyComments(DecStmtsOf(DecBody(i), QName(i, f)))

\* ------------------------------------------------------------------------
\* C16  Whatever calls of EncodeFunc and DecodeFunc were made before, the
\* set _declared of a struct is made and empty when a call of DecodeFunc on
\* it begins.
\* ------------------------------------------------------------------------
C16_DeclaredFreshAtDecodeFunc ==
    [][pc' = "DecodeFunc" => structs[idx'].declared = MakeMap]_vars

\* ------------------------------------------------------------------------
\* C17  Generation is deterministic: two calls of objectsInFile in a row on
\* files of the same content, both of which write an output, write the same
\* output: the same import lines and the same procedures in the same order.
\* ------------------------------------------------------------------------
C17_SameUnitSameOutput ==
    [][(idx' = idx + 1 /\ unit' = unit /\ artifact.created /\ artifact'.created)
          => artifact' = artifact]_vars

====
